---- MODULE Spec2Model ----
(***************************************************************************)
(* Model of examples/ofa/pretrain.py: the launcher block (__main__) that   *)
(* merges the parameter set and seeds the process, followed by main(),     *)
(* which assembles encoder, tasks, model, data module, evaluation kit and  *)
(* hands them to lightning_fit.  Control flow is sequential; pc names the  *)
(* statement group that runs next.                                         *)
(***************************************************************************)
EXTENDS Integers, Sequences, FiniteSets, TLC

\* ------------------------------------------------------------------ bounds
MaxAbsent == 1   \* keys missing from the default configuration file
MaxOpts   == 1   \* key/value pairs given on the command line
MaxSplits == 3   \* validation splits plus test splits
MaxGpu    == 2   \* accelerators reported by get_available_devices

\* ------------------------------------------------------------ python values
\* A value of the parameter set.  Every value carries all fields, so that
\* any two values are comparable.  A str is kept as its sequence of lexical
\* tokens ("," and " " are tokens of their own), so that split/strip/float
\* are computed rather than assumed.
IntV(n)      == [t |-> "int",  i |-> n, s |-> <<>>, n |-> <<>>, l |-> <<>>]
BoolV(b)     == [t |-> "bool", i |-> IF b THEN 1 ELSE 0, s |-> <<>>, n |-> <<>>,
                 l |-> <<>>]
StrV(toks)   == [t |-> "str",  i |-> 0, s |-> toks, n |-> <<>>, l |-> <<>>]
StrListV(xs) == [t |-> "list", i |-> 0, s |-> <<>>, n |-> <<>>, l |-> xs]
NumListV(xs) == [t |-> "list", i |-> 0, s |-> <<>>, n |-> xs,   l |-> <<>>]
NoneV        == [t |-> "none", i |-> 0, s |-> <<>>, n |-> <<>>, l |-> <<>>]

IsStr(v) == v.t = "str"

\* str.strip(): drop leading and trailing blanks.
RECURSIVE LStrip(_)
LStrip(toks) ==
    IF toks # <<>> /\ Head(toks) = " " THEN LStrip(Tail(toks)) ELSE toks

RECURSIVE RStrip(_)
RStrip(toks) ==
    IF toks # <<>> /\ toks[Len(toks)] = " "
    THEN RStrip(SubSeq(toks, 1, Len(toks) - 1))
    ELSE toks

Strip(toks) == RStrip(LStrip(toks))

\* str.split(","): the pieces between the commas, in order.
RECURSIVE SplitComma(_, _)
SplitComma(toks, cur) ==
    IF toks = <<>> THEN <<cur>>
    ELSE IF Head(toks) = "," THEN <<cur>> \o SplitComma(Tail(toks), <<>>)
    ELSE SplitComma(Tail(toks), Append(cur, Head(toks)))

Split(toks) == SplitComma(toks, <<>>)

\* float(a) for the numerals that occur in the configurations (no other
\* string reaches it).
Float(toks) ==
    LET d == Strip(toks) IN
    CASE d = <<"1">> -> 1
      [] d = <<"2">> -> 2
      [] d = <<"3">> -> 3
      [] OTHER       -> 0

\* ---------------------------------------------------------------- the keys
\* The attributes of params that the launcher and main read.
ConsumedKeys ==
    { "seed", "exp_name", "llm_name", "llm_b_size", "task_names", "load_texts",
      "batch_size", "train_sample_size", "emb_dim", "rwpe", "num_layers",
      "dropout", "JK", "d_multiple", "d_min_ratio", "num_workers", "lr", "l2",
      "num_epochs", "load_best", "test_rep", "val_interval" }

\* StepKeys with lr no longer read by the optimizer statement.
StepKeys_noLr(step) ==
    CASE step = "seed"       -> <<"seed">>
      [] step = "rename"     -> <<"exp_name", "llm_name">>
      [] step = "encoder"    -> <<"llm_name", "llm_b_size">>
      [] step = "task_names" -> <<"task_names">>
      [] step = "tasks"      -> <<"load_texts", "batch_size", "train_sample_size">>
      [] step = "out_dim"    -> <<"emb_dim", "rwpe">>
      [] step = "gnn"        -> <<"num_layers", "dropout", "JK">>
      [] step = "head"       -> <<"JK", "llm_name", "rwpe", "dropout">>
      [] step = "datamodule" -> <<"num_workers">>
      [] step = "optimizer"  -> <<"l2">>
      [] step = "fit"        -> <<"num_epochs", "load_best", "test_rep", "val_interval">>
      [] OTHER               -> <<>>

\* The attributes read without a hasattr guard at each statement group, in
\* Python's order of evaluation.
StepKeys(step) ==
    CASE step = "seed"       -> <<"seed">>
      [] step = "rename"     -> <<"exp_name", "llm_name">>
      [] step = "encoder"    -> <<"llm_name", "llm_b_size">>
      [] step = "task_names" -> <<"task_names">>
      [] step = "tasks"      -> <<"load_texts", "batch_size", "train_sample_size">>
      [] step = "out_dim"    -> <<"emb_dim", "rwpe">>
      [] step = "gnn"        -> <<"num_layers", "dropout", "JK">>
      [] step = "head"       -> <<"JK", "llm_name", "rwpe", "dropout">>
      [] step = "datamodule" -> <<"num_workers">>
      [] step = "optimizer"  -> <<"lr", "l2">>
      [] step = "fit"        -> <<"num_epochs", "load_best", "test_rep", "val_interval">>
      [] OTHER               -> <<>>

\* Attribute access on a SimpleNamespace: the first of the keys that is not
\* an attribute, or "" when all are.
RECURSIVE FirstMissing(_, _)
FirstMissing(ns, keys) ==
    IF keys = <<>> THEN ""
    ELSE IF Head(keys) \notin DOMAIN ns THEN Head(keys)
    ELSE FirstMissing(ns, Tail(keys))

\* ------------------------------------------------------- dictionary merging
\* dict.update: b's entries over a's.
Update(a, b) ==
    [k \in (DOMAIN a) \cup (DOMAIN b) |-> IF k \in DOMAIN b THEN b[k] ELSE a[k]]

\* combine_dict(*configs): the dictionaries folded left to right.
RECURSIVE combine_dict(_)
combine_dict(cfgs) ==
    IF cfgs = <<>> THEN <<>>
    ELSE IF Len(cfgs) = 1 THEN cfgs[1]
    ELSE Update(combine_dict(SubSeq(cfgs, 1, Len(cfgs) - 1)), cfgs[Len(cfgs)])

\* merge_mod(d, opts): each command-line pair written into d, in order.
RECURSIVE merge_mod(_, _)
merge_mod(d, pairs) ==
    IF pairs = <<>> THEN d
    ELSE merge_mod(Update(d, (pairs[1][1] :> pairs[1][2])), Tail(pairs))

\* --------------------------------------------------------------- the inputs
\* configs/default_config.yaml as shipped: every consumed key has a value.
DefaultConfig ==
    [k \in ConsumedKeys |->
        CASE k = "seed"       -> IntV(1)
          [] k = "exp_name"   -> StrV(<<"pretrain">>)
          [] k = "llm_name"   -> StrV(<<"ST">>)
          [] k = "task_names" -> StrV(<<"arxiv", ",", " ", "chemhiv">>)
          [] k = "load_texts" -> BoolV(TRUE)
          [] k = "load_best"  -> BoolV(FALSE)
          [] k = "emb_dim"    -> IntV(768)
          [] k = "rwpe"       -> NoneV
          [] k = "JK"         -> StrV(<<"none">>)
          [] k = "d_multiple" -> NumListV(<<1, 2>>)
          [] k = "d_min_ratio" -> NumListV(<<1, 1>>)
          [] OTHER            -> IntV(1)]

Without(d, A) == [k \in (DOMAIN d) \ A |-> d[k]]

\* The sets of at most n keys.
RECURSIVE KeySets(_)
KeySets(n) ==
    IF n = 0 THEN {{}}
    ELSE LET P == KeySets(n - 1) IN P \cup {A \cup {k} : A \in P, k \in ConsumedKeys}

\* The default configuration file, possibly lacking some keys.
BaseFiles == {Without(DefaultConfig, A) : A \in KeySets(MaxAbsent)}

\* The file named by --override: <<>> when the flag is not given.
OverrideFiles ==
    { <<>>,
      << [k \in {"JK", "rwpe"} |->
            IF k = "JK" THEN StrV(<<"last">>) ELSE IntV(0)] >>,
      << [k \in {"rwpe", "emb_dim", "d_multiple", "task_names"} |->
            CASE k = "rwpe"       -> IntV(20)
              [] k = "emb_dim"    -> IntV(384)
              [] k = "d_multiple" -> StrV(<<"2", ",", "3">>)
              [] OTHER            -> StrListV(<< <<"cora">> >>)] >>,
      << [k \in {"seed", "lr", "JK"} |->
            IF k = "JK" THEN StrV(<<"none">>) ELSE IntV(2)] >> }

\* The key/value pairs a command line can carry.
OptPairs ==
    { <<"JK", StrV(<<"sum">>)>>, <<"lr", IntV(3)>> }

RECURSIVE SeqsUpTo(_, _)
SeqsUpTo(S, n) ==
    IF n = 0 THEN {<<>>}
    ELSE LET P == SeqsUpTo(S, n - 1) IN P \cup {Append(q, x) : q \in P, x \in S}

\* The evaluation split descriptors the task constructor can produce: one
\* per known metric kind and one of a kind the launcher does not know.
SplitPool ==
    { [state_name |-> "arxiv",    metric |-> "acc",      classes |-> 40,
       eval_func |-> "classification_func"],
      [state_name |-> "chemhiv",  metric |-> "auc",      classes |-> 2,
       eval_func |-> "binary_auc_func"],
      [state_name |-> "chempcba", metric |-> "apr",      classes |-> 128,
       eval_func |-> "binary_apr_func"],
      [state_name |-> "chemtox",  metric |-> "aucmulti", classes |-> 12,
       eval_func |-> "binary_auc_multi_func"],
      [state_name |-> "molreg",   metric |-> "rmse",     classes |-> 1,
       eval_func |-> "regression_func"] }

KnownMetrics == {"acc", "auc", "apr", "aucmulti"}

\* What make_full_dm_list returns under "val" and "test".
SplitLists ==
    UNION { { [val |-> SubSeq(q, 1, c), test |-> SubSeq(q, c + 1, Len(q))] :
                c \in 0..Len(q) } : q \in SeqsUpTo(SplitPool, MaxSplits) }

GpuIds(n) == [i \in 1..n |-> i - 1]

\* The machine and the task data a run meets.
Environments ==
    { [gpu_ids |-> GpuIds(g), splits |-> sl] : g \in 0..MaxGpu, sl \in SplitLists }

PlainEnvironments ==
    { [gpu_ids |-> GpuIds(1),
       splits  |-> [val  |-> <<CHOOSE d \in SplitPool : d.metric = "acc">>,
                    test |-> <<CHOOSE d \in SplitPool : d.metric = "auc">>]],
      [gpu_ids |-> GpuIds(2),
       splits  |-> [val  |-> <<CHOOSE d \in SplitPool : d.metric = "apr",
                               CHOOSE d \in SplitPool : d.metric = "rmse">>,
                    test |-> <<CHOOSE d \in SplitPool : d.metric = "aucmulti">>]] }

Sources ==
    { [base |-> b, override |-> o, opts |-> c] :
        b \in BaseFiles, o \in OverrideFiles, c \in SeqsUpTo(OptPairs, MaxOpts) }

PlainSources ==
    { [base |-> DefaultConfig, override |-> <<>>, opts |-> <<>>] }

\* A run is given its configuration sources and its environment.  Every
\* combination of sources is run in the plain environments, and every
\* environment is met with the plain sources.
Runs ==
    { [src |-> s, env |-> e] : s \in Sources, e \in PlainEnvironments }
    \cup { [src |-> s, env |-> e] : s \in PlainSources, e \in Environments }

\* ---------------------------------------------------------------- the state
VARIABLES
    pc,               \* the statement group that runs next; "done" or "failed" at the end
    error,            \* the uncaught exception that ended the run
    built,            \* the model and data components constructed so far
    default_config,   \* content of configs/default_config.yaml
    override_config,  \* content of the --override file, <<>> without the flag
    opts,             \* the trailing command-line pairs
    env,              \* the devices of the machine and the splits of the tasks
    configs, mod_params, params,
    seed,             \* the process-wide random seed: <<>> until set
    gpu_size, task_names, out_dim, gnn, model,
    data_multiple, min_ratio, text_dataset, datamodule,
    eval_data, val_state, test_state, eval_state, eval_metric, eval_funcs,
    evlter,
    metrics,          \* the arguments EvalKit is constructed with
    exp_config,
    fit               \* the arguments lightning_fit is invoked with

inputs == <<default_config, override_config, opts, env>>
launch == <<configs, mod_params, params, seed>>
modelv == <<gpu_size, task_names, out_dim, gnn, model>>
datav  == <<data_multiple, min_ratio, text_dataset, datamodule>>
evalv  == <<eval_data, val_state, test_state, eval_state, eval_metric, eval_funcs,
            evlter, metrics>>
trainv == <<exp_config, fit>>
vars   == <<pc, error, built, inputs, launch, modelv, datav, evalv, trainv>>

Unset   == [unset |-> TRUE]
NoError == [type |-> "", key |-> "", at |-> ""]
NoCall  == [called |-> FALSE]

Init ==
    /\ \E r \in Runs :
          /\ default_config = r.src.base
          /\ override_config = r.src.override
          /\ opts = r.src.opts
          /\ env = r.env
    /\ pc = "load_configs"
    /\ error = NoError
    /\ built = {}
    /\ configs = <<>>
    /\ mod_params = <<>>
    /\ params = <<>>
    /\ seed = <<>>
    /\ gpu_size = 0
    /\ task_names = <<>>
    /\ out_dim = 0
    /\ gnn = Unset
    /\ model = Unset
    /\ data_multiple = <<>>
    /\ min_ratio = <<>>
    /\ text_dataset = Unset
    /\ datamodule = Unset
    /\ eval_data = <<>>
    /\ val_state = <<>>
    /\ test_state = <<>>
    /\ eval_state = <<>>
    /\ eval_metric = <<>>
    /\ eval_funcs = <<>>
    /\ evlter = <<>>
    /\ metrics = Unset
    /\ exp_config = Unset
    /\ fit = NoCall

\* An uncaught exception: the process ends at the current statement group.
Raise(type, what) ==
    /\ pc' = "failed"
    /\ error' = [type |-> type, key |-> what, at |-> pc]

\* ------------------------------------------------------------- the launcher
\* LauncherConfigs with the override file placed before the default file.
LauncherConfigs_overrideFirst(base, override) == override \o <<base>>

\* The list of configurations to combine: the default file, then the
\* override file when --override names one.

LauncherConfigs(base, override) == <<base>> \o override

LoadConfigs ==
    /\ pc = "load_configs"
    /\ configs' = LauncherConfigs(default_config, override_config)
    /\ pc' = "combine"
    /\ UNCHANGED <<error, built, inputs, mod_params, params, seed, modelv, datav,
                   evalv, trainv>>

CombineDict ==
    /\ pc = "combine"
    /\ mod_params' = combine_dict(configs)
    /\ pc' = "merge_mod"
    /\ UNCHANGED <<error, built, inputs, configs, params, seed, modelv, datav,
                   evalv, trainv>>

\* mod_params = merge_mod(mod_params, params.opts); setup_exp(mod_params)
MergeMod ==
    /\ pc = "merge_mod"
    /\ mod_params' = merge_mod(mod_params, opts)
    /\ pc' = "seed"
    /\ UNCHANGED <<error, built, inputs, configs, params, seed, modelv, datav,
                   evalv, trainv>>

\* SetRandomSeed with params.seed read but the seed left unset.
SetRandomSeed_skipped ==
    /\ pc = "seed"
    /\ params' = mod_params
    /\ IF FirstMissing(mod_params, StepKeys(pc)) # ""
       THEN Raise("AttributeError", FirstMissing(mod_params, StepKeys(pc)))
       ELSE pc' = "rename" /\ UNCHANGED error
    /\ UNCHANGED <<seed, built, inputs, configs, mod_params, modelv, datav, evalv,
                   trainv>>

\* params = SimpleNamespace(**mod_params); set_random_seed(params.seed)
SetRandomSeed ==
    /\ pc = "seed"
    /\ params' = mod_params
    /\ IF FirstMissing(mod_params, StepKeys(pc)) # ""
       THEN /\ Raise("AttributeError", FirstMissing(mod_params, StepKeys(pc)))
            /\ UNCHANGED seed
       ELSE /\ seed' = <<mod_params["seed"]>>
            /\ pc' = "rename"
            /\ UNCHANGED error
    /\ UNCHANGED <<built, inputs, configs, mod_params, modelv, datav, evalv, trainv>>

\* log_project is set, then exp_name gets the suffix "_<llm_name>_ofa1".
WithLogProject(ns) == Update(ns, "log_project" :> StrV(<<"full_cdm">>))

Rename ==
    /\ pc = "rename"
    /\ IF FirstMissing(params, StepKeys(pc)) # ""
       THEN /\ Raise("AttributeError", FirstMissing(params, StepKeys(pc)))
            /\ params' = WithLogProject(params)
       ELSE /\ params' =
                [WithLogProject(params) EXCEPT
                    !["exp_name"] =
                        StrV(@.s \o <<"_">> \o params["llm_name"].s \o <<"_ofa1">>)]
            /\ pc' = "devices"
            /\ UNCHANGED error
    /\ UNCHANGED <<built, inputs, configs, mod_params, seed, modelv, datav, evalv,
                   trainv>>

\* --------------------------------------------------------------- main: 0-2
\* 0. device, gpu_ids = utils.get_available_devices(); gpu_size = len(gpu_ids)
GetDevices ==
    /\ pc = "devices"
    /\ gpu_size' = Len(env.gpu_ids)
    /\ pc' = "encoder"
    /\ UNCHANGED <<error, built, inputs, launch, task_names, out_dim, gnn, model,
                   datav, evalv, trainv>>

\* 1. encoder = SentenceEncoder(params.llm_name, batch_size=params.llm_b_size)
BuildEncoder ==
    /\ pc = "encoder"
    /\ IF FirstMissing(params, StepKeys(pc)) # ""
       THEN /\ Raise("AttributeError", FirstMissing(params, StepKeys(pc)))
            /\ UNCHANGED built
       ELSE /\ built' = built \cup {"encoder"}
            /\ pc' = "task_names"
            /\ UNCHANGED error
    /\ UNCHANGED <<inputs, launch, modelv, datav, evalv, trainv>>

\* The task and data lookups are loaded; task_names is split on "," and
\* stripped when it is a str, and taken as it is otherwise.
TaskNames(v) ==
    IF IsStr(v)
    THEN [i \in 1..Len(Split(v.s)) |-> Strip(Split(v.s)[i])]
    ELSE v.l

ReadTaskNames ==
    /\ pc = "task_names"
    /\ IF FirstMissing(params, StepKeys(pc)) # ""
       THEN /\ Raise("AttributeError", FirstMissing(params, StepKeys(pc)))
            /\ UNCHANGED task_names
       ELSE /\ task_names' = TaskNames(params["task_names"])
            /\ pc' = "tasks"
            /\ UNCHANGED error
    /\ UNCHANGED <<built, inputs, launch, gpu_size, out_dim, gnn, model, datav,
                   evalv, trainv>>

\* tasks = UnifiedTaskConstructor(...); tasks.construct_exp(); the encoder
\* model is flushed.
BuildTasks ==
    /\ pc = "tasks"
    /\ IF FirstMissing(params, StepKeys(pc)) # ""
       THEN /\ Raise("AttributeError", FirstMissing(params, StepKeys(pc)))
            /\ UNCHANGED built
       ELSE /\ built' = built \cup {"tasks"}
            /\ pc' = "out_dim"
            /\ UNCHANGED error
    /\ UNCHANGED <<inputs, launch, modelv, datav, evalv, trainv>>

\* OutDim with the positional-encoding size left out.
OutDim_noRwpe(emb_dim, rwpe) == emb_dim.i

\* 2. out_dim = params.emb_dim + (params.rwpe if params.rwpe is not None else 0)

OutDim(emb_dim, rwpe) == emb_dim.i + (IF rwpe # NoneV THEN rwpe.i ELSE 0)

ComputeOutDim ==
    /\ pc = "out_dim"
    /\ IF FirstMissing(params, StepKeys(pc)) # ""
       THEN /\ Raise("AttributeError", FirstMissing(params, StepKeys(pc)))
            /\ UNCHANGED out_dim
       ELSE /\ out_dim' = OutDim(params["emb_dim"], params["rwpe"])
            /\ pc' = "gnn"
            /\ UNCHANGED error
    /\ UNCHANGED <<built, inputs, launch, gpu_size, task_names, gnn, model, datav,
                   evalv, trainv>>

\* gnn = PyGRGCNEdge(params.num_layers, 5, out_dim, out_dim, drop_ratio, JK)
NumRelations == 5

BuildGnn ==
    /\ pc = "gnn"
    /\ IF FirstMissing(params, StepKeys(pc)) # ""
       THEN /\ Raise("AttributeError", FirstMissing(params, StepKeys(pc)))
            /\ UNCHANGED <<gnn, built>>
       ELSE /\ gnn' = [num_layer     |-> params["num_layers"],
                       num_relations |-> NumRelations,
                       inp_dim       |-> out_dim,
                       out_dim       |-> out_dim,
                       drop_ratio    |-> params["dropout"],
                       JK            |-> params["JK"]]
            /\ built' = built \cup {"gnn"}
            /\ pc' = "head"
            /\ UNCHANGED error
    /\ UNCHANGED <<inputs, launch, gpu_size, task_names, out_dim, model, datav,
                   evalv, trainv>>

\* BinModel with the two heads exchanged.
BinModel_swapped(JK) ==
    IF JK = StrV(<<"none">>) THEN "BinGraphModel" ELSE "BinGraphAttModel"

\* bin_model = BinGraphAttModel if params.JK == "none" else BinGraphModel

BinModel(JK) ==
    IF JK = StrV(<<"none">>) THEN "BinGraphAttModel" ELSE "BinGraphModel"

TaskDim == 1

BuildHead ==
    /\ pc = "head"
    /\ IF FirstMissing(params, StepKeys(pc)) # ""
       THEN /\ Raise("AttributeError", FirstMissing(params, StepKeys(pc)))
            /\ UNCHANGED <<model, built>>
       ELSE /\ model' = [class    |-> BinModel(params["JK"]),
                         model    |-> gnn,
                         llm_name |-> params["llm_name"],
                         outdim   |-> out_dim,
                         task_dim |-> TaskDim,
                         add_rwpe |-> params["rwpe"],
                         dropout  |-> params["dropout"]]
            /\ built' = built \cup {"model"}
            /\ pc' = "multiples"
            /\ UNCHANGED error
    /\ UNCHANGED <<inputs, launch, gpu_size, task_names, out_dim, gnn, datav,
                   evalv, trainv>>

\* ----------------------------------------------------------------- main: 3
\* d_multiple and d_min_ratio: a str is split on "," and its pieces turned
\* into floats, any other value is taken as it is, and [1] stands in for a
\* missing attribute.
Multiples(ns, key) ==
    IF key \in DOMAIN ns
    THEN IF IsStr(ns[key])
         THEN [i \in 1..Len(Split(ns[key].s)) |-> Float(Split(ns[key].s)[i])]
         ELSE ns[key].n
    ELSE <<1>>

ReadMultiples ==
    /\ pc = "multiples"
    /\ data_multiple' = Multiples(params, "d_multiple")
    /\ min_ratio' = Multiples(params, "d_min_ratio")
    /\ pc' = "train_data"
    /\ UNCHANGED <<error, built, inputs, launch, modelv, text_dataset, datamodule,
                   evalv, trainv>>

\* train_data = tasks.make_train_data(...); text_dataset = tasks.make_full_dm_list(...)
MakeTrainData ==
    /\ pc = "train_data"
    /\ text_dataset' = env.splits
    /\ built' = built \cup {"train_data"}
    /\ pc' = "datamodule"
    /\ UNCHANGED <<error, inputs, launch, modelv, data_multiple, min_ratio,
                   datamodule, evalv, trainv>>

\* params.datamodule = DataModule(text_dataset, gpu_size=gpu_size, num_workers=...);
\* the attribute is held in the variable datamodule.
BuildDataModule ==
    /\ pc = "datamodule"
    /\ IF FirstMissing(params, StepKeys(pc)) # ""
       THEN /\ Raise("AttributeError", FirstMissing(params, StepKeys(pc)))
            /\ UNCHANGED <<datamodule, built>>
       ELSE /\ datamodule' = [data        |-> text_dataset,
                              gpu_size    |-> gpu_size,
                              num_workers |-> params["num_workers"]]
            /\ built' = built \cup {"datamodule"}
            /\ pc' = "eval_lists"
            /\ UNCHANGED error
    /\ UNCHANGED <<inputs, launch, modelv, data_multiple, min_ratio, text_dataset,
                   evalv, trainv>>

\* ----------------------------------------------------------------- main: 4
\* EvalData with the test splits placed first.
EvalData_testFirst(td) == td.test \o td.val

\* eval_data = text_dataset["val"] + text_dataset["test"]

EvalData(td) == td.val \o td.test

StateNames(dts) == [i \in 1..Len(dts) |-> dts[i].state_name]

CollectEvalLists ==
    /\ pc = "eval_lists"
    /\ eval_data' = EvalData(text_dataset)
    /\ val_state' = StateNames(text_dataset.val)
    /\ test_state' = StateNames(text_dataset.test)
    /\ eval_state' = StateNames(text_dataset.val) \o StateNames(text_dataset.test)
    /\ eval_metric' = [i \in 1..Len(EvalData(text_dataset)) |->
                          EvalData(text_dataset)[i].metric]
    /\ eval_funcs' = [i \in 1..Len(EvalData(text_dataset)) |->
                          EvalData(text_dataset)[i].eval_func]
    /\ pc' = "evlter"
    /\ UNCHANGED <<error, built, inputs, launch, modelv, datav, evlter, metrics,
                   trainv>>

\* The scorer classes and their constructor arguments.
Accuracy(num_classes) == [type |-> "Accuracy", task |-> "multiclass", n |-> num_classes]
AUROC                 == [type |-> "AUROC",    task |-> "binary",     n |-> 0]
MultiApr(num_labels)  == [type |-> "MultiApr", task |-> "",           n |-> num_labels]
MultiAuc(num_labels)  == [type |-> "MultiAuc", task |-> "",           n |-> num_labels]

\* Scorers with "apr" given the scorer of "aucmulti".
Scorers_aprAsAuc(dt) ==
    IF dt.metric = "acc" THEN <<Accuracy(dt.classes)>>
    ELSE IF dt.metric = "auc" THEN <<AUROC>>
    ELSE IF dt.metric = "apr" THEN <<MultiAuc(dt.classes)>>
    ELSE IF dt.metric = "aucmulti" THEN <<MultiAuc(dt.classes)>>
    ELSE <<>>

\* Scorers with an accuracy scorer added for every other metric kind.
Scorers_defaultAccuracy(dt) ==
    IF dt.metric = "acc" THEN <<Accuracy(dt.classes)>>
    ELSE IF dt.metric = "auc" THEN <<AUROC>>
    ELSE IF dt.metric = "apr" THEN <<MultiApr(dt.classes)>>
    ELSE IF dt.metric = "aucmulti" THEN <<MultiAuc(dt.classes)>>
    ELSE <<Accuracy(dt.classes)>>

\* The scorers one split adds to evlter: one for a known metric kind, none
\* for any other.
Scorers(dt) ==
    IF dt.metric = "acc" THEN <<Accuracy(dt.classes)>>
    ELSE IF dt.metric = "auc" THEN <<AUROC>>
    ELSE IF dt.metric = "apr" THEN <<MultiApr(dt.classes)>>
    ELSE IF dt.metric = "aucmulti" THEN <<MultiAuc(dt.classes)>>
    ELSE <<>>

\* evlter = []; for dt in eval_data: ...
RECURSIVE EvlterLoop(_, _)
EvlterLoop(dts, acc) ==
    IF dts = <<>> THEN acc
    ELSE EvlterLoop(Tail(dts), acc \o Scorers(Head(dts)))

BuildEvlter ==
    /\ pc = "evlter"
    /\ evlter' = EvlterLoop(eval_data, <<>>)
    /\ pc' = "evalkit"
    /\ UNCHANGED <<error, built, inputs, launch, modelv, datav, eval_data,
                   val_state, test_state, eval_state, eval_metric, eval_funcs,
                   metrics, trainv>>

\* EvalKitArgs with test_monitor_state taken from val_state.
EvalKitArgs_testFromVal(em, ev, ef, es, vs, ts) ==
    [metric_name        |-> em,
     evlter             |-> ev,
     loss               |-> "BCEWithLogitsLoss",
     evalproc           |-> ef,
     flat_proc          |-> "flat_binary_func",
     eval_mode          |-> "max",
     exp_prefix         |-> "",
     eval_state         |-> es,
     val_monitor_state  |-> vs[1],
     test_monitor_state |-> vs[1]]

\* metrics = EvalKit(eval_metric, evlter, loss, eval_funcs, flat_binary_func, ...)
EvalKitArgs(em, ev, ef, es, vs, ts) ==
    [metric_name        |-> em,
     evlter             |-> ev,
     loss               |-> "BCEWithLogitsLoss",
     evalproc           |-> ef,
     flat_proc          |-> "flat_binary_func",
     eval_mode          |-> "max",
     exp_prefix         |-> "",
     eval_state         |-> es,
     val_monitor_state  |-> vs[1],
     test_monitor_state |-> ts[1]]

\* val_state[0] and test_state[0] are evaluated, in this order, before
\* EvalKit is entered: an empty list raises IndexError.
BuildEvalKit ==
    /\ pc = "evalkit"
    /\ IF val_state = <<>>
       THEN Raise("IndexError", "val_state") /\ UNCHANGED metrics
       ELSE IF test_state = <<>>
       THEN Raise("IndexError", "test_state") /\ UNCHANGED metrics
       ELSE /\ metrics' = EvalKitArgs(eval_metric, evlter, eval_funcs, eval_state,
                                      val_state, test_state)
            /\ pc' = "optimizer"
            /\ UNCHANGED error
    /\ UNCHANGED <<built, inputs, launch, modelv, datav, eval_data, val_state,
                   test_state, eval_state, eval_metric, eval_funcs, evlter, trainv>>

\* --------------------------------------------------------------- main: 5-6
\* optimizer = Adam(model.parameters(), lr=params.lr, weight_decay=params.l2)
\* and the StepLR scheduler.
BuildOptimizer ==
    /\ pc = "optimizer"
    /\ IF FirstMissing(params, StepKeys(pc)) # ""
       THEN Raise("AttributeError", FirstMissing(params, StepKeys(pc)))
       ELSE pc' = "lightning" /\ UNCHANGED error
    /\ UNCHANGED <<built, inputs, launch, modelv, datav, evalv, trainv>>

\* exp_config = ExpConfig(...), its state names, and GraphPredLightning.
BuildLightningModel ==
    /\ pc = "lightning"
    /\ exp_config' = [val_state_name |-> val_state, test_state_name |-> test_state]
    /\ pc' = "fit"
    /\ UNCHANGED <<error, built, inputs, launch, modelv, datav, evalv, fit>>

\* Strategy with the sharded strategy chosen from one accelerator on.
Strategy_fromOne(n) == IF n >= 1 THEN "deepspeed_stage_2" ELSE "auto"

\* strategy = "deepspeed_stage_2" if gpu_size > 1 else "auto"

Strategy(n) == IF n > 1 THEN "deepspeed_stage_2" ELSE "auto"

ReloadFreq == 1

\* lightning_fit(None, pred_model, params.datamodule, metrics, ...)
LightningFit ==
    /\ pc = "fit"
    /\ IF FirstMissing(params, StepKeys(pc)) # ""
       THEN /\ Raise("AttributeError", FirstMissing(params, StepKeys(pc)))
            /\ UNCHANGED fit
       ELSE /\ fit' = [called       |-> TRUE,
                       model        |-> model,
                       exp_config   |-> exp_config,
                       datamodule   |-> datamodule,
                       metrics      |-> metrics,
                       num_epochs   |-> params["num_epochs"],
                       strategy     |-> Strategy(gpu_size),
                       save_model   |-> FALSE,
                       load_best    |-> params["load_best"],
                       reload_freq  |-> ReloadFreq,
                       test_rep     |-> params["test_rep"],
                       val_interval |-> params["val_interval"]]
            /\ pc' = "done"
            /\ UNCHANGED error
    /\ UNCHANGED <<built, inputs, launch, modelv, datav, evalv, exp_config>>

Next ==
    \/ LoadConfigs
    \/ CombineDict
    \/ MergeMod
    \/ SetRandomSeed
    \/ Rename
    \/ GetDevices
    \/ BuildEncoder
    \/ ReadTaskNames
    \/ BuildTasks
    \/ ComputeOutDim
    \/ BuildGnn
    \/ BuildHead
    \/ ReadMultiples
    \/ MakeTrainData
    \/ BuildDataModule
    \/ CollectEvalLists
    \/ BuildEvlter
    \/ BuildEvalKit
    \/ BuildOptimizer
    \/ BuildLightningModel
    \/ LightningFit

Spec == Init /\ [][Next]_vars

\* ------------------------------------------------------- reading a state
\* The statement groups in program order.
Order ==
    << "load_configs", "combine", "merge_mod", "seed", "rename", "devices",
       "encoder", "task_names", "tasks", "out_dim", "gnn", "head", "multiples",
       "train_data", "datamodule", "eval_lists", "evlter", "evalkit", "optimizer",
       "lightning", "fit", "done" >>

PosTable ==
    [step \in {Order[i] : i \in 1..Len(Order)} |->
        CHOOSE i \in 1..Len(Order) : Order[i] = step]

Pos(step) == PosTable[step]

\* Where control stands: at pc, or at the statement group that raised.
Cur == IF pc = "failed" THEN Pos(error.at) ELSE Pos(pc)

\* The statement group has run to its end.
Completed(step) == Pos(step) < Cur

\* The evaluation splits of the run, validation first.
EvalSplits == env.splits.val \o env.splits.test

AllKnown == \A i \in 1..Len(EvalSplits) : EvalSplits[i].metric \in KnownMetrics

\* The scorer the metric-kind table assigns to a split of a known kind.
TableScorer(dt) ==
    CASE dt.metric = "acc"      -> [type |-> "Accuracy", task |-> "multiclass",
                                    n |-> dt.classes]
      [] dt.metric = "auc"      -> [type |-> "AUROC", task |-> "binary", n |-> 0]
      [] dt.metric = "apr"      -> [type |-> "MultiApr", task |-> "", n |-> dt.classes]
      [] dt.metric = "aucmulti" -> [type |-> "MultiAuc", task |-> "", n |-> dt.classes]

IsKnown(dt) == dt.metric \in KnownMetrics

KnownSplits == SelectSeq(EvalSplits, IsKnown)

\* ------------------------------------------------------------------- C1
\* C1: when every evaluation split has one of the four known metric kinds,
\* the scorer list built by main holds exactly one scorer per split, the
\* i-th being the scorer the table assigns to the i-th split (validation
\* splits first), and its length is the number of evaluation splits.
C1_OneScorerPerSplit ==
    (Completed("evlter") /\ AllKnown) =>
        /\ Len(evlter) = Len(EvalSplits)
        /\ \A i \in 1..Len(EvalSplits) : evlter[i] = TableScorer(EvalSplits[i])

C1_Witness ==
    /\ pc = "done"
    /\ AllKnown
    /\ Cardinality({EvalSplits[i].metric : i \in 1..Len(EvalSplits)}) >= 3
    /\ Len(evlter) = Len(EvalSplits)

\* ------------------------------------------------------------------- C2
\* C2: when some evaluation split has a metric kind outside the four known
\* ones, building the scorer list raises nothing and adds nothing for that
\* split: the list holds the scorers of the known splits only, so it is
\* strictly shorter than the metric-kind and split-name lists, each scorer
\* that follows the first unknown split sits one index before its split,
\* and EvalKit and lightning_fit receive the lists in that shape.
FirstUnknown == CHOOSE j \in 1..Len(EvalSplits) :
    /\ ~IsKnown(EvalSplits[j])
    /\ \A i \in 1..(j - 1) : IsKnown(EvalSplits[i])

Misaligned(m) ==
    /\ Len(m.evlter) < Len(m.metric_name)
    /\ Len(m.evlter) < Len(m.eval_state)
    /\ Len(m.metric_name) = Len(EvalSplits)
    /\ Len(m.eval_state) = Len(EvalSplits)

C2_UnknownKindSkipped ==
    ~AllKnown =>
        /\ ~(pc = "failed" /\ error.at = "evlter")
        /\ Completed("evlter") =>
              /\ Len(evlter) = Len(KnownSplits)
              /\ \A i \in 1..Len(KnownSplits) : evlter[i] = TableScorer(KnownSplits[i])
              /\ Len(evlter) < Len(eval_metric)
              /\ Len(evlter) < Len(eval_state)
              /\ \A i \in (FirstUnknown + 1)..Len(EvalSplits) :
                    (\A h \in (FirstUnknown + 1)..i : IsKnown(EvalSplits[h]))
                        => evlter[i - 1] = TableScorer(EvalSplits[i])
        /\ Completed("evalkit") => Misaligned(metrics)
        /\ fit.called => Misaligned(fit.metrics)

C2_Witness ==
    /\ fit.called
    /\ ~AllKnown
    /\ FirstUnknown < Len(EvalSplits)
    /\ IsKnown(EvalSplits[FirstUnknown + 1])
    /\ Len(fit.metrics.evlter) = Len(EvalSplits) - 1

\* ------------------------------------------------------------------- C3
\* C3: after combine_dict and merge_mod, each key of the merged parameter
\* set has the value of the last source that gives it: the command line's
\* (its last pair for the key), else the override file's, else the default
\* file's; a key no source gives is not in the set.
InOpts(k) == \E i \in 1..Len(opts) : opts[i][1] = k

LastOpt(k) ==
    LET i == CHOOSE j \in 1..Len(opts) :
                 /\ opts[j][1] = k
                 /\ \A h \in (j + 1)..Len(opts) : opts[h][1] # k
    IN opts[i][2]

InOverride(k) == override_config # <<>> /\ k \in DOMAIN override_config[1]

SourceKeys ==
    ConsumedKeys \cup {opts[i][1] : i \in 1..Len(opts)}
        \cup (IF override_config = <<>> THEN {} ELSE DOMAIN override_config[1])

C3_LastWriteWins ==
    Completed("merge_mod") =>
        \A k \in SourceKeys \cup DOMAIN mod_params :
            IF InOpts(k)
            THEN k \in DOMAIN mod_params /\ mod_params[k] = LastOpt(k)
            ELSE IF InOverride(k)
            THEN k \in DOMAIN mod_params /\ mod_params[k] = override_config[1][k]
            ELSE IF k \in DOMAIN default_config
            THEN k \in DOMAIN mod_params /\ mod_params[k] = default_config[k]
            ELSE k \notin DOMAIN mod_params

C3_Witness ==
    /\ Completed("merge_mod")
    /\ \E k \in DOMAIN default_config :
          /\ InOpts(k) /\ InOverride(k)
          /\ LastOpt(k) # override_config[1][k]
          /\ override_config[1][k] # default_config[k]
          /\ mod_params[k] = LastOpt(k)
    /\ \E k \in DOMAIN default_config :
          /\ ~InOpts(k) /\ InOverride(k)
          /\ override_config[1][k] # default_config[k]
          /\ mod_params[k] = override_config[1][k]

\* ------------------------------------------------------------------- C4
\* C4: whenever any of the sentence encoder, the task constructor, the graph
\* encoder, the task head, the training data or the data module has been
\* built, the random seed has been set, to the merged parameters' seed.
C4_SeedBeforeConstruction ==
    built # {} => seed = <<mod_params["seed"]>>

C4_Witness ==
    /\ built = {"encoder", "tasks", "gnn", "model", "train_data", "datamodule"}
    /\ seed # <<>>

\* ------------------------------------------------------------------- C5
\* The statement group where a key is read for the first time.
FirstRead(k) ==
    CASE k = "seed" -> "seed"
      [] k \in {"exp_name", "llm_name"} -> "rename"
      [] k = "llm_b_size" -> "encoder"
      [] k = "task_names" -> "task_names"
      [] k \in {"load_texts", "batch_size", "train_sample_size"} -> "tasks"
      [] k \in {"emb_dim", "rwpe"} -> "out_dim"
      [] k \in {"num_layers", "dropout", "JK"} -> "gnn"
      [] k \in {"d_multiple", "d_min_ratio"} -> "multiples"
      [] k = "num_workers" -> "datamodule"
      [] k \in {"lr", "l2"} -> "optimizer"
      [] k \in {"num_epochs", "load_best", "test_rep", "val_interval"} -> "fit"

Absent(k) == k \notin DOMAIN mod_params /\ Completed("merge_mod")

\* C5 as stated: for every consumed key that the merged parameter set
\* lacks, lightning_fit is never invoked and a run that has ended has ended
\* with a missing-attribute failure for that key at its first read.
C5_EveryMissingKeyFails ==
    \A k \in ConsumedKeys :
        Absent(k) =>
            /\ ~fit.called
            /\ pc \in {"done", "failed"} =>
                  /\ pc = "failed"
                  /\ error = [type |-> "AttributeError", key |-> k,
                              at |-> FirstRead(k)]

\* The keys read under hasattr, which fall back to [1].
GuardedKeys == {"d_multiple", "d_min_ratio"}

\* C5 (amended): for every key read without a hasattr guard that the merged
\* parameter set lacks, the statement that first reads it never completes,
\* lightning_fit is never invoked, and a run that has ended has failed: with
\* a missing-attribute error at the first read of an absent key no later than
\* this one's, or with the IndexError of an empty split list at the EvalKit
\* call when that call comes before this key's first read.  When d_multiple
\* or d_min_ratio is absent, [1] is used for it and nothing is raised.
C5_UnguardedMissingKeyFails ==
    /\ \A k \in ConsumedKeys \ GuardedKeys :
          Absent(k) =>
              /\ ~fit.called
              /\ pc # "done"
              /\ ~Completed(FirstRead(k))
              /\ pc = "failed" =>
                    \/ /\ error.type = "AttributeError"
                       /\ error.key \in ConsumedKeys \ GuardedKeys
                       /\ error.key \notin DOMAIN mod_params
                       /\ error.at = FirstRead(error.key)
                       /\ Pos(error.at) <= Pos(FirstRead(k))
                    \/ /\ error.type = "IndexError"
                       /\ error.at = "evalkit"
                       /\ Pos("evalkit") < Pos(FirstRead(k))
    /\ (Absent("d_multiple") /\ Completed("multiples")) => data_multiple = <<1>>
    /\ (Absent("d_min_ratio") /\ Completed("multiples")) => min_ratio = <<1>>
    /\ \A k \in GuardedKeys :
          Absent(k) => ~(pc = "failed" /\ error.at = "multiples")

C5_Witness ==
    /\ pc = "failed"
    /\ Absent("val_interval")
    /\ error = [type |-> "AttributeError", key |-> "val_interval", at |-> "fit"]
    /\ built = {"encoder", "tasks", "gnn", "model", "train_data", "datamodule"}

\* ------------------------------------------------------------------- C6
\* C6: EvalKit is given the state name of the first validation split as
\* val_monitor_state and that of the first test split as
\* test_monitor_state, whenever both lists are non-empty; the EvalKit call
\* fails only when one of them is empty.
C6_MonitorsAreFirstSplits ==
    /\ Completed("evalkit") =>
          /\ env.splits.val # <<>> /\ env.splits.test # <<>>
          /\ metrics.val_monitor_state = env.splits.val[1].state_name
          /\ metrics.test_monitor_state = env.splits.test[1].state_name
    /\ (pc = "failed" /\ error.at = "evalkit") =>
          (env.splits.val = <<>> \/ env.splits.test = <<>>)

C6_Witness ==
    /\ Completed("evalkit")
    /\ Len(env.splits.val) >= 2
    /\ env.splits.val[1].state_name # env.splits.val[2].state_name
    /\ env.splits.val[1].state_name # env.splits.test[1].state_name
    /\ metrics.test_monitor_state = env.splits.test[1].state_name

\* ------------------------------------------------------------------- C7
\* C7: the head is BinGraphAttModel exactly when the merged JK is the string
\* "none" and BinGraphModel for every other JK, and the graph encoder is
\* given that same JK.
C7_HeadSelectedByJK ==
    Completed("head") =>
        /\ model.class = (IF mod_params["JK"].t = "str" /\ mod_params["JK"].s = <<"none">>
                          THEN "BinGraphAttModel" ELSE "BinGraphModel")
        /\ gnn.JK = mod_params["JK"]
        /\ model.model.JK = mod_params["JK"]

C7_Witness ==
    /\ Completed("head")
    /\ mod_params["JK"] = StrV(<<"last">>)
    /\ default_config["JK"] = StrV(<<"none">>)
    /\ model.class = "BinGraphModel"

\* ------------------------------------------------------------------- C8
\* C8: out_dim is emb_dim plus rwpe, and emb_dim alone when rwpe is None
\* or zero; the graph encoder gets it as input and as output dimension and
\* the head as outdim.
C8_OutDim ==
    /\ Completed("out_dim") =>
          /\ mod_params["rwpe"].t = "int" =>
                out_dim = mod_params["emb_dim"].i + mod_params["rwpe"].i
          /\ (mod_params["rwpe"].t = "none" \/ mod_params["rwpe"].i = 0) =>
                out_dim = mod_params["emb_dim"].i
    /\ Completed("gnn") => (gnn.inp_dim = out_dim /\ gnn.out_dim = out_dim)
    /\ Completed("head") => (model.outdim = out_dim /\ model.model.out_dim = out_dim)

C8_Witness ==
    /\ Completed("head")
    /\ mod_params["rwpe"].t = "int"
    /\ mod_params["rwpe"].i > 0
    /\ model.outdim = mod_params["emb_dim"].i + mod_params["rwpe"].i

\* ------------------------------------------------------------------- C9
\* C9: lightning_fit is invoked with strategy "deepspeed_stage_2" exactly
\* when more than one accelerator is available and with "auto" otherwise,
\* and the data module was given the same accelerator count.
C9_StrategyByGpuCount ==
    fit.called =>
        /\ fit.strategy =
              (IF Len(env.gpu_ids) > 1 THEN "deepspeed_stage_2" ELSE "auto")
        /\ gpu_size = Len(env.gpu_ids)
        /\ fit.datamodule.gpu_size = Len(env.gpu_ids)

C9_Witness ==
    /\ fit.called
    /\ Len(env.gpu_ids) = 1
    /\ fit.strategy = "auto"
    /\ fit.datamodule.gpu_size = 1

\* ------------------------------------------------------------------ C10
\* C10: the lists EvalKit is given are aligned: eval_state is the
\* validation split names in order followed by the test split names, the
\* metric-kind and callback lists are as long, entry i of each comes from
\* split i, and when every kind is known the scorer list is as long and its
\* entry i is the scorer of split i.
C10_ListsAligned ==
    Completed("evalkit") =>
        /\ metrics.eval_state =
              StateNames(env.splits.val) \o StateNames(env.splits.test)
        /\ Len(metrics.metric_name) = Len(metrics.eval_state)
        /\ Len(metrics.evalproc) = Len(metrics.eval_state)
        /\ \A i \in 1..Len(EvalSplits) :
              /\ metrics.eval_state[i] = EvalSplits[i].state_name
              /\ metrics.metric_name[i] = EvalSplits[i].metric
              /\ metrics.evalproc[i] = EvalSplits[i].eval_func
        /\ AllKnown =>
              /\ Len(metrics.evlter) = Len(metrics.eval_state)
              /\ \A i \in 1..Len(EvalSplits) :
                    metrics.evlter[i] = TableScorer(EvalSplits[i])

C10_Witness ==
    /\ Completed("evalkit")
    /\ AllKnown
    /\ Len(env.splits.val) >= 1
    /\ Len(env.splits.test) >= 2
    /\ env.splits.val[1].metric # env.splits.test[1].metric
    /\ env.splits.test[1].metric # env.splits.test[2].metric
    /\ Len(metrics.evlter) = Len(EvalSplits)

====
